---- MODULE Spec2Model ----
(***************************************************************************)
(* The data-access module (lib/mongo, src/unnamed/part_000): sixteen       *)
(* exported operations, each run inside Promise.using(dbConnection(), fn). *)
(* Two callers run one operation each, concurrently; a call is suspended   *)
(* exactly where it awaits the store: connect, the store call, close.      *)
(* The record-management module on top of the store (lib/supporters,       *)
(* src/backend/lib/supporters.js) is modelled next to it: get, update and  *)
(* remove, each an async function suspended at its awaits.                 *)
(***************************************************************************)
EXTENDS Integers, Sequences, FiniteSets, TLC

VARIABLES calls, handles, alarms, store, supporterCalls, clients, supporters

\* lib/mongo and its store; lib/supporters, its clients and its collection.
mongoVars == <<calls, handles, alarms, store>>
supVars == <<supporterCalls, clients, supporters>>
vars == <<calls, handles, alarms, store, supporterCalls, clients, supporters>>

\* The concurrent callers; each issues one call.
Calls == {1, 2}

\* Longest batch handed to updateMany.
MaxBatch == 2

(***************************************************************************)
(* JavaScript values                                                       *)
(***************************************************************************)
Undefined == [t |-> "undefined"]
NaN == [t |-> "NaN"]
Num(n) == [t |-> "number", n |-> n]
Str(chars) == [t |-> "string", s |-> chars]
Obj(kv) == [t |-> "object", kv |-> kv]
Arr(items) == [t |-> "array", items |-> items]
Err(msg) == [t |-> "error", msg |-> msg]

\* o[k]
Get(o, k) ==
    IF o.t = "object" /\ \E p \in o.kv : p[1] = k
    THEN (CHOOSE p \in o.kv : p[1] = k)[2]
    ELSE Undefined

\* lodash
isUndefined(v) == v.t = "undefined"
isNaN(v) == v.t = "NaN"
isObject(v) == v.t \in {"object", "array"}
keys(v) == IF v.t = "object" THEN {p[1] : p \in v.kv} ELSE {}
size(s) == Cardinality(s)
extend(a, b) ==
    Obj({p \in a.kv : p[1] \notin keys(b)} \cup b.kv)

startsWith(v, ch) == v.t = "string" /\ Len(v.s) > 0 /\ v.s[1] = ch

(***************************************************************************)
(* Failures of the collaborators                                           *)
(***************************************************************************)
ConnErr == Err("connect failed")
StoreErr == Err("store raised")
CloseErr == Err("close failed")
SinkErr == Err("alarm sink raised")

\* What a call to the alarm sink can do: take the record, raise in the
\* caller's stack, or fail later on its own (a rejection nobody awaits).
SinkOutcomes == {"accepted", "throws", "rejects"}

Pending == [st |-> "pending"]
Fulfilled(v) == [st |-> "fulfilled", val |-> v]
Rejected(e) == [st |-> "rejected", err |-> e]
Thrown(e) == [st |-> "thrown", err |-> e]

\* The store's acknowledgement of a request: opaque to this layer.
Reply(req) == [t |-> "reply", of |-> req.method]

(***************************************************************************)
(* Arguments the callers pass                                              *)
(***************************************************************************)
CNames == {"supporters"}

E1 == Obj({<<"id", Num(1)>>, <<"v", Str(<<"a">>)>>})
E2 == Obj({<<"id", Num(2)>>, <<"v", Str(<<"b">>)>>})
E0 == Obj({<<"v", Str(<<"c">>)>>})
Elements == {E0, E1, E2}

Selectors == {Obj({}), Obj({<<"id", Num(1)>>})}
Sorters == {Undefined, Obj({<<"v", Num(1)>>})}
TimeVarNames == {Str(<<"$", "t">>), Str(<<"t">>), Undefined}
AggExts == {Undefined, Obj({}), Obj({<<"user", Str(<<"$", "u">>)>>,
                                     <<"day", Str(<<"$", "d">>)>>})}
IdObjs == {Undefined, Obj({<<"user", Str(<<"$", "u">>)>>})}
Pasts == {NaN, Num(1), Undefined, Str(<<"2">>)}
Limits == {Num(2)}
Stages == {Obj({<<"$lookup", Str(<<"x">>)>>})}
Fields == {Str(<<"v">>)}
EListsOf(n) == UNION {[1..k -> Elements] : k \in 0..n}
ELists == {Arr(l) : l \in EListsOf(MaxBatch)}

(***************************************************************************)
(* The store call each operation's scope function issues                   *)
(***************************************************************************)
Req(cName, method, params) ==
    [cName |-> cName, method |-> method, params |-> params]

\* countByDay, lines 142-151
queryId(timeVarName, aggext) ==
    LET base == Obj({<<"year", Obj({<<"$year", timeVarName>>})>>,
                     <<"month", Obj({<<"$month", timeVarName>>})>>,
                     <<"day", Obj({<<"$dayOfMonth", timeVarName>>})>>})
    IN IF isObject(aggext) /\ size(keys(aggext)) > 0
       THEN extend(base, aggext)
       ELSE base

\* countByDay, lines 153-158
totalQ(timeVarName, filter, aggext) ==
    Arr(<<Obj({<<"$match", filter>>}),
          Obj({<<"$group",
                 Obj({<<"_id", queryId(timeVarName, aggext)>>,
                      <<"count", Obj({<<"$sum", Num(1)>>})>>})>>})>>)

\* read, line 57
sorterOrEmpty(sorter) == IF isUndefined(sorter) THEN Obj({}) ELSE sorter

\* readLimit, line 85
pastOrZeroAlways(past) == Num(0)
pastOrZero(past) == IF isNaN(past) THEN Num(0) ELSE past

\* countByObject, line 188
idobjOrField(idobj) == IF isUndefined(idobj) THEN Str(<<"$", "v">>) ELSE idobj
idobjOrEmpty(idobj) == IF isUndefined(idobj) THEN Obj({}) ELSE idobj

\* The request issued with the handle, per operation; idx is the position
\* in the batch for updateMany.
Request(op, a, idx) ==
    CASE op = "writeOne" -> Req(a.cName, "insert", <<a.dataObject>>)
      [] op = "updateOne" -> Req(a.cName, "updateOne", <<a.selector, a.updated>>)
      [] op = "upsertOne" ->
            Req(a.cName, "updateOne",
                <<a.selector, a.updated, Obj({<<"upsert", Str(<<"true">>)>>})>>)
      [] op = "writeMany" -> Req(a.cName, "insertMany", <<a.dataObjects>>)
      [] op = "read" ->
            Req(a.cName, "find.sort.toArray",
                <<a.selector, sorterOrEmpty(a.sorter)>>)
      [] op = "remove" -> Req(a.cName, "remove", <<a.selector>>)
      [] op = "readLimit" ->
            Req(a.cName, "find.sort.skip.limit.toArray",
                <<a.selector, a.sorter, pastOrZero(a.past), a.limitN>>)
      [] op = "countByMatch" -> Req(a.cName, "find.count", <<a.selector>>)
      [] op = "aggregate" ->
            Req(a.cName, "aggregate.toArray",
                <<Arr(<<Obj({<<"$match", a.match>>}),
                        Obj({<<"$group", a.group>>})>>)>>)
      [] op = "countByDay" ->
            Req(a.cName, "aggregate.toArray",
                <<totalQ(a.timeVarName, a.filter, a.aggext)>>)
      [] op = "countByObject" ->
            Req(a.cName, "aggregate.toArray",
                <<Arr(<<Obj({<<"$group",
                               Obj({<<"_id", idobjOrEmpty(a.idobj)>>,
                                    <<"count", Obj({<<"$sum", Num(1)>>})>>})>>}),
                        Obj({<<"$sort", Obj({<<"count", Num(-1)>>})>>})>>)>>)
      [] op = "updateMany" ->
            Req(a.cName, "update",
                <<Obj({<<"id", Get(a.elist.items[idx], "id")>>}),
                  a.elist.items[idx]>>)
      [] op = "lookup" ->
            Req(a.cName, "aggregate.toArray", <<Arr(<<a.query, a.sequence>>)>>)
      [] op = "save" -> Req(a.cName, "save", <<a.doc>>)
      [] op = "createIndex" -> Req(a.cName, "ensureIndex", <<a.index, a.opt>>)
      [] op = "distinct" -> Req(a.cName, "distinct", <<a.field, a.query>>)

(***************************************************************************)
(* The store behind the handle: one collection, its documents in natural   *)
(* order, and the counter the store draws _id from.  It is an external     *)
(* collaborator; what is written here is what the driver documents for the *)
(* requests this module issues.  Pipelines with date operators or $lookup, *)
(* distinct and ensureIndex are answered with an opaque Reply.             *)
(***************************************************************************)
EmptyStore == [docs |-> <<>>, nextId |-> 1]

\* A selector of plain values matches a document by field equality.
Matches(doc, selector) == \A p \in selector.kv : Get(doc, p[1]) = p[2]
find(docs, selector) == SelectSeq(docs, LAMBDA d : Matches(d, selector))

CharRank == [ch \in {"a", "b", "c"} |->
                CASE ch = "a" -> 1 [] ch = "b" -> 2 [] ch = "c" -> 3]
SortKey(v) ==
    IF v.t = "number" THEN v.n
    ELSE IF v.t = "string" /\ v.s # <<>> /\ Head(v.s) \in DOMAIN CharRank
    THEN CharRank[Head(v.s)]
    ELSE 0

RECURSIVE InsertSorted(_, _, _, _)
InsertSorted(d, s, k, dir) ==
    IF s = <<>> THEN <<d>>
    ELSE IF dir * SortKey(Get(d, k)) < dir * SortKey(Get(Head(s), k))
    THEN <<d>> \o s
    ELSE <<Head(s)>> \o InsertSorted(d, Tail(s), k, dir)

RECURSIVE SortBy(_, _, _)
SortBy(s, k, dir) ==
    IF s = <<>> THEN <<>>
    ELSE InsertSorted(s[Len(s)], SortBy(SubSeq(s, 1, Len(s) - 1), k, dir), k, dir)

\* cursor.sort(sorter): no key, natural order; one key, a stable sort.
sort(docs, sorter) ==
    IF keys(sorter) = {} THEN docs
    ELSE LET p == CHOOSE q \in sorter.kv : TRUE
         IN SortBy(docs, p[1], p[2].n)

\* cursor.skip(n).limit(m); limit 0 is no limit.
skipLimit(docs, n, m) ==
    LET last == IF m = 0 \/ n + m > Len(docs) THEN Len(docs) ELSE n + m
    IN SubSeq(docs, n + 1, last)

withId(st, doc) ==
    IF "_id" \in keys(doc) THEN doc
    ELSE Obj(doc.kv \cup {<<"_id", Num(st.nextId)>>})

insertDocLost(st, doc) == [st EXCEPT !.nextId = @ + 1]
insertDoc(st, doc) ==
    [docs |-> Append(st.docs, withId(st, doc)), nextId |-> st.nextId + 1]

RECURSIVE insertAll(_, _)
insertAll(st, ds) ==
    IF ds = <<>> THEN st ELSE insertAll(insertDoc(st, Head(ds)), Tail(ds))

\* update with a replacement document: the first match is replaced and keeps
\* its _id; with upsert and no match the document is inserted.
replaceDoc(st, selector, updated, upsert) ==
    LET I == {i \in 1..Len(st.docs) : Matches(st.docs[i], selector)}
    IN IF I # {}
       THEN LET i == CHOOSE j \in I : \A l \in I : j <= l
            IN [st EXCEPT !.docs[i] =
                    Obj({p \in updated.kv : p[1] # "_id"}
                        \cup {p \in @.kv : p[1] = "_id"})]
       ELSE IF upsert THEN insertDoc(st, updated) ELSE st

removeDocs(st, selector) ==
    [st EXCEPT !.docs = SelectSeq(@, LAMBDA d : ~Matches(d, selector))]

\* An expression of a $group _id: "$f" reads field f, anything else is a
\* constant.
evalExpr(v, doc) ==
    IF v.t = "string" /\ Len(v.s) = 2 /\ v.s[1] = "$"
    THEN Get(doc, v.s[2])
    ELSE v

groupKey(idobj, doc) ==
    IF idobj.t = "object"
    THEN Obj({<<p[1], evalExpr(p[2], doc)>> : p \in idobj.kv})
    ELSE evalExpr(idobj, doc)

\* [{$group: {_id: idobj, count: {$sum: 1}}}, {$sort: {count: -1}}]: one
\* entry per distinct key among the documents, largest count first.
RECURSIVE buckets(_, _, _)
buckets(ks, docs, idobj) ==
    IF ks = {} THEN <<>>
    ELSE LET n(k) == Cardinality({i \in 1..Len(docs) : groupKey(idobj, docs[i]) = k})
             top == CHOOSE k \in ks : \A j \in ks : n(k) >= n(j)
         IN <<Obj({<<"_id", top>>, <<"count", Num(n(top))>>})>>
            \o buckets(ks \ {top}, docs, idobj)

groupCount(docs, idobj) ==
    buckets({groupKey(idobj, docs[i]) : i \in 1..Len(docs)}, docs, idobj)

isGroupCount(pipeline) ==
    /\ Len(pipeline.items) = 2
    /\ "$group" \in keys(pipeline.items[1])
    /\ "$sort" \in keys(pipeline.items[2])

\* cursor.skip() takes a number only; the driver raises on anything else.
Acceptable(req) ==
    req.method = "find.sort.skip.limit.toArray" => req.params[3].t = "number"

\* What the store does with an accepted request: its new content and the
\* value the request resolves to.
Exec(st, req) ==
    LET a == req.params
        ack(st2) == [st |-> st2, reply |-> Reply(req)]
        answer(v) == [st |-> st, reply |-> v]
    IN CASE req.method = "insert" -> ack(insertDoc(st, a[1]))
         [] req.method = "insertMany" -> ack(insertAll(st, a[1].items))
         [] req.method = "save" -> ack(insertDoc(st, a[1]))
         [] req.method \in {"updateOne", "update"} ->
                ack(replaceDoc(st, a[1], a[2], Len(a) = 3))
         [] req.method = "remove" -> ack(removeDocs(st, a[1]))
         [] req.method = "find.sort.toArray" ->
                answer(Arr(sort(find(st.docs, a[1]), a[2])))
         [] req.method = "find.sort.skip.limit.toArray" ->
                answer(Arr(skipLimit(sort(find(st.docs, a[1]), a[2]), a[3].n, a[4].n)))
         [] req.method = "find.count" -> answer(Num(Len(find(st.docs, a[1]))))
         [] req.method = "aggregate.toArray" /\ isGroupCount(a[1]) ->
                answer(Arr(groupCount(st.docs,
                                      Get(Get(a[1].items[1], "$group"), "_id"))))
         [] OTHER -> answer(Reply(req))

(***************************************************************************)
(* State                                                                   *)
(*   calls[c]   the call of caller c: operation, arguments, where it is    *)
(*              suspended, what its scope function returned (fn), what the *)
(*              caller got (out), and the log of its store traffic         *)
(*   handles    every handle connectAsync ever resolved to, in order, with *)
(*              its owner and how many times db.close() ran on it          *)
(*   alarms     every reportAlarm call, in order, with what the sink did   *)
(*   store      the content of the collection behind the handles           *)
(*   supporterCalls[c]  the lib/supporters call of caller c: function,     *)
(*              arguments, the await it is suspended at, the client it     *)
(*              connected, what the caller got                             *)
(*   clients    every client clientConnect resolved to, in order, with its *)
(*              owner and how many times close() ran on it                 *)
(*   supporters the supporters collection, one document per publicKey      *)
(***************************************************************************)
NoSupporterCall ==
    [op |-> "none", publicKey |-> "none", update |-> [publicKey |-> "none"],
     pc |-> "idle", mongoc |-> 0, value |-> Undefined, out |-> Pending]

NoCall ==
    [op |-> "none", args |-> [cName |-> "none"], pc |-> "idle", idx |-> 0,
     handle |-> 0, connects |-> 0, failure |-> "none", failedAt |-> 0,
     fn |-> Pending,
     issued |-> <<>>, applied |-> <<>>, out |-> Pending]

Init ==
    /\ calls = [c \in Calls |-> NoCall]
    /\ handles = <<>>
    /\ alarms = <<>>
    /\ store = EmptyStore
    /\ supporterCalls = [c \in Calls |-> NoSupporterCall]
    /\ clients = <<>>
    /\ supporters = {}

\* Callers are numbered in the order they call.
CanInvoke(c) ==
    /\ calls[c].pc = "idle"
    /\ \A d \in Calls : d < c => calls[d].pc # "idle"

Invoked(op, a) == [NoCall EXCEPT !.op = op, !.args = a]

\* A synchronous throw out of the operation: the caller gets no promise.
Throw(cr, e) == [cr EXCEPT !.pc = "done", !.out = Thrown(e)]

\* dbConnection(): connectAsync is called; the call waits for the handle.
dbConnection(cr) ==
    [cr EXCEPT !.pc = "connecting", !.connects = @ + 1, !.fn = Pending]

(***************************************************************************)
(* Preconditions                                                           *)
(***************************************************************************)
emptySelectorNever(selector) == FALSE
\* remove, line 73
emptySelector(selector) == size(keys(selector)) = 0

wantsDollarNever(timeVarName) == FALSE
\* countByDay, line 139
wantsDollar(timeVarName) == ~startsWith(timeVarName, "$")

lacksIdFirstOnly(elist) ==
    Len(elist.items) > 0 /\ isUndefined(Get(elist.items[1], "id"))
\* updateMany, lines 218-223
lacksId(elist) ==
    \E i \in 1..Len(elist.items) : isUndefined(Get(elist.items[i], "id"))

(***************************************************************************)
(* Failure containment                                                     *)
(***************************************************************************)
\* .catch on the pipeline's promise, inside the scope function
catchesInScope(op) == op \in {"countByDay", "countByObject", "lookup"}

\* .catch on the promise Promise.using returns
catchesAfterScope(op) == op = "readLimit"

\* The info object of the Alarm Record
info(op, a) ==
    CASE op = "readLimit" ->
            [selector |-> a.selector, limit |-> a.limitN, sorter |-> a.sorter]
      [] op = "countByDay" ->
            [cName |-> a.cName, timeVarName |-> a.timeVarName,
             filter |-> a.filter, aggext |-> a.aggext]
      [] op = "countByObject" ->
            [cName |-> a.cName, idobj |-> idobjOrEmpty(a.idobj)]
      [] op = "lookup" ->
            [cName |-> a.cName, query |-> a.query, sequence |-> a.sequence]

alarmRecord(op, a, error) ==
    [caller |-> op, what |-> error, info |-> info(op, a)]

\* alarms.reportAlarm(rec), called by caller c; sink is what the sink does.
reportAlarm(log, c, rec, sink) ==
    Append(log, [by |-> c, rec |-> rec, sink |-> sink])

\* The catch handler: reportAlarm(...), debug(...), return [].  A raise
\* out of reportAlarm leaves the handler before `return []`.
catchHandler(sink) ==
    IF sink = "throws" THEN Rejected(SinkErr) ELSE Fulfilled(Arr(<<>>))

chainedAlways(op, a, p) ==
    CASE op = "writeOne" -> Fulfilled(a.dataObject)
      [] op \in {"updateOne", "upsertOne"} -> Fulfilled(a.updated)
      [] op = "updateMany" -> Fulfilled(a.elist)
      [] OTHER -> p

\* What follows Promise.using in each operation: .return(x), .tap(debug),
\* Promise.each's own result.  Only a fulfilled promise is touched.
chained(op, a, p) ==
    IF p.st # "fulfilled" THEN p
    ELSE CASE op = "writeOne" -> Fulfilled(a.dataObject)
           [] op \in {"updateOne", "upsertOne"} -> Fulfilled(a.updated)
           [] op = "updateMany" -> Fulfilled(a.elist)
           [] OTHER -> p

\* The caller's promise settles with p, the outcome of Promise.using.
settle(cr, p, sink) ==
    [cr EXCEPT !.pc = "done",
               !.out = IF catchesAfterScope(cr.op) /\ p.st = "rejected"
                       THEN catchHandler(sink)
                       ELSE chained(cr.op, cr.args, p)]

settleAlarms(log, c, cr, p, sink) ==
    IF catchesAfterScope(cr.op) /\ p.st = "rejected"
    THEN reportAlarm(log, c, alarmRecord(cr.op, cr.args, p.err), sink)
    ELSE log

(***************************************************************************)
(* The exported operations: the synchronous part of each call              *)
(***************************************************************************)
BeginAlarming(c, cr) ==
    /\ calls' = [calls EXCEPT ![c] = cr]
    /\ alarms' = IF cr.out.st = "thrown"
                 THEN reportAlarm(alarms, c,
                          [caller |-> cr.op, what |-> cr.out.err, info |-> cr.args],
                          "accepted")
                 ELSE alarms
    /\ UNCHANGED <<handles, store, supVars>>
\* The call of caller c starts as cr; nothing else has happened yet.
Begin(c, cr) ==
    calls' = [calls EXCEPT ![c] = cr] /\ UNCHANGED <<handles, alarms, store, supVars>>

writeOne(c, cName, dataObject) ==
    /\ CanInvoke(c)
    /\ Begin(c, dbConnection(Invoked("writeOne",
        [cName |-> cName, dataObject |-> dataObject])))

updateOne(c, cName, selector, updated) ==
    /\ CanInvoke(c)
    /\ Begin(c, dbConnection(Invoked("updateOne",
        [cName |-> cName, selector |-> selector, updated |-> updated])))

upsertOne(c, cName, selector, updated) ==
    /\ CanInvoke(c)
    /\ Begin(c, dbConnection(Invoked("upsertOne",
        [cName |-> cName, selector |-> selector, updated |-> updated])))

writeMany(c, cName, dataObjects) ==
    /\ CanInvoke(c)
    /\ Begin(c, dbConnection(Invoked("writeMany",
        [cName |-> cName, dataObjects |-> dataObjects])))

read(c, cName, selector, sorter) ==
    /\ CanInvoke(c)
    /\ Begin(c, dbConnection(Invoked("read",
        [cName |-> cName, selector |-> selector, sorter |-> sorter])))

remove(c, cName, selector) ==
    LET cr == Invoked("remove", [cName |-> cName, selector |-> selector])
    IN /\ CanInvoke(c)
       /\ Begin(c, IF emptySelector(selector)
                THEN Throw(cr, Err("Nope, you can't delete {} "))
                ELSE dbConnection(cr))

readLimit(c, cName, selector, sorter, limitN, past) ==
    /\ CanInvoke(c)
    /\ Begin(c, dbConnection(Invoked("readLimit",
        [cName |-> cName, selector |-> selector, sorter |-> sorter,
         limitN |-> limitN, past |-> past])))

countByMatch(c, cName, selector) ==
    /\ CanInvoke(c)
    /\ Begin(c, dbConnection(Invoked("countByMatch",
        [cName |-> cName, selector |-> selector])))

aggregate(c, cName, match, group) ==
    /\ CanInvoke(c)
    /\ Begin(c, dbConnection(Invoked("aggregate",
        [cName |-> cName, match |-> match, group |-> group])))

countByDay(c, cName, timeVarName, filter, aggext) ==
    LET cr == Invoked("countByDay",
                [cName |-> cName, timeVarName |-> timeVarName,
                 filter |-> filter, aggext |-> aggext])
    IN /\ CanInvoke(c)
       /\ Begin(c, IF wantsDollar(timeVarName)
                THEN Throw(cr, Err("developer please: mongoVar wants '$'"))
                ELSE dbConnection(cr))

countByObject(c, cName, idobj) ==
    /\ CanInvoke(c)
    /\ Begin(c, dbConnection(Invoked("countByObject",
        [cName |-> cName, idobj |-> idobj])))

\* The call itself checks the ids and hands the list to Promise.each; the
\* caller gets a pending promise, and Promise.each goes on in a later turn
\* of the event loop.
updateMany(c, cName, elist) ==
    LET cr == Invoked("updateMany", [cName |-> cName, elist |-> elist])
    IN /\ CanInvoke(c)
       /\ Begin(c, IF lacksId(elist)
                THEN Throw(cr, Err("we need id in every element"))
                ELSE [cr EXCEPT !.pc = "each"])

\* Promise.each calls the iterator for the first element, and the iterator
\* calls dbConnection().  Over an empty list it resolves with the list
\* without calling the iterator.
eachStarts(c) ==
    LET cr == calls[c]
    IN /\ cr.pc = "each"
       /\ calls' = [calls EXCEPT ![c] =
            IF Len(cr.args.elist.items) = 0
            THEN [cr EXCEPT !.pc = "done", !.out = Fulfilled(cr.args.elist)]
            ELSE dbConnection([cr EXCEPT !.idx = 1])]
       /\ UNCHANGED <<handles, alarms, store, supVars>>

lookup(c, cName, query, sequence) ==
    /\ CanInvoke(c)
    /\ Begin(c, dbConnection(Invoked("lookup",
        [cName |-> cName, query |-> query, sequence |-> sequence])))

save(c, cName, doc) ==
    /\ CanInvoke(c)
    /\ Begin(c, dbConnection(Invoked("save", [cName |-> cName, doc |-> doc])))

createIndex(c, cName, index, opt) ==
    /\ CanInvoke(c)
    /\ Begin(c, dbConnection(Invoked("createIndex",
        [cName |-> cName, index |-> index, opt |-> opt])))

distinct(c, cName, field, query) ==
    /\ CanInvoke(c)
    /\ Begin(c, dbConnection(Invoked("distinct",
        [cName |-> cName, field |-> field, query |-> query])))

(***************************************************************************)
(* Promise.using: acquire, run the scope function, dispose                 *)
(***************************************************************************)
connectAsyncResolvesShared(c) ==
    LET cr == calls[c]
    IN /\ cr.pc = "connecting"
       /\ handles' = IF handles = <<>>
                     THEN <<[owner |-> c, closes |-> 0]>>
                     ELSE handles
       /\ calls' = [calls EXCEPT ![c] =
            [cr EXCEPT !.pc = "executing", !.handle = 1,
                       !.issued = Append(@, [handle |-> 1,
                                             req |-> Request(cr.op, cr.args, cr.idx)])]]
       /\ UNCHANGED <<alarms, store, supVars>>
\* connectAsync resolves: a fresh handle; the scope function runs at once
\* and issues the operation's store call with it.
connectAsyncResolves(c) ==
    LET cr == calls[c]
        h == Len(handles) + 1
    IN /\ cr.pc = "connecting"
       /\ handles' = Append(handles, [owner |-> c, closes |-> 0])
       /\ calls' = [calls EXCEPT ![c] =
            [cr EXCEPT !.pc = "executing", !.handle = h,
                       !.issued = Append(@, [handle |-> h,
                                             req |-> Request(cr.op, cr.args, cr.idx)])]]
       /\ UNCHANGED <<alarms, store, supVars>>

\* connectAsync rejects: there is nothing to dispose; Promise.using rejects.
connectAsyncRejects(c) ==
    LET cr == [calls[c] EXCEPT !.failure = "connect", !.failedAt = calls[c].idx]
    IN /\ calls[c].pc = "connecting"
       /\ \E sink \in SinkOutcomes :
            /\ calls' = [calls EXCEPT ![c] = settle(cr, Rejected(ConnErr), sink)]
            /\ alarms' = settleAlarms(alarms, c, cr, Rejected(ConnErr), sink)
       /\ UNCHANGED <<handles, store, supVars>>

scopeReturnsNoWait(cr, p) ==
    IF cr.op = "updateMany" /\ p.st = "fulfilled"
       /\ cr.idx < Len(cr.args.elist.items)
    THEN dbConnection([cr EXCEPT !.idx = @ + 1])
    ELSE [cr EXCEPT !.fn = p, !.pc = "closing"]
\* The promise the scope function returned has settled with p; Promise.using
\* now runs the disposer and settles only after it.
scopeReturns(cr, p) == [cr EXCEPT !.fn = p, !.pc = "closing"]

\* The store carries the request out and answers it.
storeCallResolves(c) ==
    LET cr == calls[c]
        req == cr.issued[Len(cr.issued)].req
        r == Exec(store, req)
    IN /\ cr.pc = "executing"
       /\ Acceptable(req)
       /\ store' = r.st
       /\ calls' = [calls EXCEPT ![c] =
            scopeReturns([cr EXCEPT !.applied = Append(@, req)],
                         Fulfilled(r.reply))]
       /\ UNCHANGED <<handles, alarms, supVars>>

\* The store raises on the request.
storeCallRejects(c) ==
    LET cr == [calls[c] EXCEPT !.failure = "store", !.failedAt = calls[c].idx]
    IN /\ calls[c].pc = "executing"
       /\ IF catchesInScope(cr.op)
          THEN \E sink \in SinkOutcomes :
                 /\ alarms' = reportAlarm(alarms, c,
                                  alarmRecord(cr.op, cr.args, StoreErr), sink)
                 /\ calls' = [calls EXCEPT ![c] =
                                  scopeReturns(cr, catchHandler(sink))]
          ELSE /\ calls' = [calls EXCEPT ![c] = scopeReturns(cr, Rejected(StoreErr))]
               /\ UNCHANGED alarms
       /\ UNCHANGED <<handles, store, supVars>>

closeNot(h) == h
\* db.close() is called, line 16
close(h) == [h EXCEPT !.closes = @ + 1]

eachContinuesAnyway(p, idx, elist) == idx < Len(elist.items)
\* Promise.each: the next element is taken only after the iterator's promise
\* for this one fulfilled; a rejection ends the loop.
eachContinues(p, idx, elist) == p.st = "fulfilled" /\ idx < Len(elist.items)

\* The disposer runs: it calls db.close() and returns the promise of it.
disposer(c) ==
    LET cr == calls[c]
    IN /\ cr.pc = "closing"
       /\ handles' = [handles EXCEPT ![cr.handle] = close(@)]
       /\ calls' = [calls EXCEPT ![c].pc = "closePending"]
       /\ UNCHANGED <<alarms, store, supVars>>

\* The promise of db.close() resolves; then Promise.using settles with what
\* the scope function returned, and the rest of the operation's chain runs.
closeResolves(c) ==
    LET cr == calls[c]
        released == [cr EXCEPT !.handle = 0]
    IN /\ cr.pc = "closePending"
       /\ UNCHANGED <<handles, store, supVars>>
       /\ IF cr.op = "updateMany" /\ eachContinues(cr.fn, cr.idx, cr.args.elist)
          THEN /\ calls' = [calls EXCEPT ![c] =
                              dbConnection([released EXCEPT !.idx = @ + 1])]
               /\ UNCHANGED alarms
          ELSE \E sink \in SinkOutcomes :
                 /\ calls' = [calls EXCEPT ![c] = settle(released, cr.fn, sink)]
                 /\ alarms' = settleAlarms(alarms, c, released, cr.fn, sink)

\* The promise of db.close() rejects: Promise.using rethrows the error as an
\* uncaught exception and never settles, so the caller's promise stays
\* pending and nothing chained on it runs.
closeRejects(c) ==
    /\ calls[c].pc = "closePending"
    /\ calls' = [calls EXCEPT ![c].pc = "uncaught"]
    /\ UNCHANGED <<handles, alarms, store, supVars>>

Next ==
    \/ \E c \in Calls, cName \in CNames :
        \/ \E d \in Elements : writeOne(c, cName, d)
        \/ \E sel \in Selectors : updateOne(c, cName, sel, E1)
        \/ \E sel \in Selectors : upsertOne(c, cName, sel, E1)
        \/ writeMany(c, cName, Arr(<<E1, E2>>))
        \/ \E sel \in Selectors, sorter \in Sorters : read(c, cName, sel, sorter)
        \/ \E sel \in Selectors : remove(c, cName, sel)
        \/ \E sel \in Selectors, n \in Limits, past \in Pasts :
             readLimit(c, cName, sel, Obj({<<"v", Num(1)>>}), n, past)
        \/ \E sel \in Selectors : countByMatch(c, cName, sel)
        \/ \E sel \in Selectors, g \in IdObjs : aggregate(c, cName, sel, g)
        \/ \E t \in TimeVarNames, x \in AggExts :
             countByDay(c, cName, t, Obj({}), x)
        \/ \E idobj \in IdObjs : countByObject(c, cName, idobj)
        \/ \E elist \in ELists : updateMany(c, cName, elist)
        \/ \E q \in Stages, sq \in Stages : lookup(c, cName, q, sq)
        \/ \E d \in Elements : save(c, cName, d)
        \/ \E f \in Fields : createIndex(c, cName, Obj({<<"v", Num(1)>>}), Undefined)
        \/ \E f \in Fields, q \in Selectors : distinct(c, cName, f, q)
    \/ \E c \in Calls :
        \/ connectAsyncResolves(c)
        \/ connectAsyncRejects(c)
        \/ storeCallResolves(c)
        \/ storeCallRejects(c)
        \/ disposer(c)
        \/ closeResolves(c)
        \/ closeRejects(c)
        \/ eachStarts(c)

Spec == Init /\ [][Next]_vars

(***************************************************************************)
(* The same operations against a collection that already holds documents,  *)
(* one call at a time: a call starts only when no other call is under way. *)
(***************************************************************************)
MaxDocs == 2

\* The collections of at most MaxDocs documents, as their inserts left them.
Collections == {insertAll(EmptyStore, l) : l \in EListsOf(MaxDocs)}

NoCallUnderWay == \A c \in Calls : calls[c].pc \in {"idle", "done"}

InitStore ==
    /\ calls = [c \in Calls |-> NoCall]
    /\ handles = <<>>
    /\ alarms = <<>>
    /\ store \in Collections
    /\ supporterCalls = [c \in Calls |-> NoSupporterCall]
    /\ clients = <<>>
    /\ supporters = {}

NextStore ==
    \/ \E c \in Calls, cName \in CNames, d \in Elements :
         NoCallUnderWay /\ writeOne(c, cName, d)
    \/ \E c \in Calls, cName \in CNames, sel \in Selectors, sorter \in Sorters :
         NoCallUnderWay /\ read(c, cName, sel, sorter)
    \/ \E c \in Calls, cName \in CNames, sel \in Selectors, sorter \in Sorters,
          n \in Limits, past \in Pasts :
         NoCallUnderWay /\ readLimit(c, cName, sel, sorter, n, past)
    \/ \E c \in Calls, cName \in CNames, idobj \in IdObjs :
         NoCallUnderWay /\ countByObject(c, cName, idobj)
    \/ \E c \in Calls :
        \/ connectAsyncResolves(c)
        \/ connectAsyncRejects(c)
        \/ storeCallResolves(c)
        \/ storeCallRejects(c)
        \/ disposer(c)
        \/ closeResolves(c)
        \/ closeRejects(c)

SpecStore == InitStore /\ [][NextStore]_vars

(***************************************************************************)
(* lib/supporters: get, update and remove.  Each connects a client of its  *)
(* own, awaits one or two store calls on it, and closes it with            *)
(* "await mongoc.close()" as its last statement before returning: close()  *)
(* is called as soon as the await before it resolved, and the function     *)
(* then waits for the promise of close().  A rejected await, like a throw, *)
(* ends the async function there: the call rejects and the statements      *)
(* below it do not run.                                                    *)
(***************************************************************************)
PublicKeys == {"k1", "k2"}
Supporter(publicKey, tag) == [publicKey |-> publicKey, tag |-> tag]
\* What routes hand to update(): a document that names a publicKey.
Updates == {Supporter(k, "tagged") : k \in PublicKeys}
\* What the supporters collection may hold when a call starts.
SupporterSets == SUBSET {Supporter(k, "plain") : k \in PublicKeys}

Null == [t |-> "null"]

\* readOne(mongoc, supporters, { publicKey }): the document, or null.
readOne(coll, publicKey) ==
    IF \E sp \in coll : sp.publicKey = publicKey
    THEN CHOOSE sp \in coll : sp.publicKey = publicKey
    ELSE Null

\* updateOne(mongoc, supporters, { publicKey }, update)
updateSupporter(coll, publicKey, update) ==
    {IF sp.publicKey = publicKey THEN update ELSE sp : sp \in coll}

\* deleteMany(mongoc, supporters, { publicKey })
deleteMany(coll, publicKey) == {sp \in coll : sp.publicKey # publicKey}

\* mongoc.close() is called on the client.
mongocClose(cl) == [cl EXCEPT !.closes = @ + 1]

\* The async function ends here with a rejection.
Rejects(sc, e) == [sc EXCEPT !.pc = "done", !.out = Rejected(e)]

supportersGet(c, publicKey) ==
    /\ supporterCalls[c].pc = "idle"
    /\ supporterCalls' = [supporterCalls EXCEPT ![c] =
          [NoSupporterCall EXCEPT !.op = "get", !.publicKey = publicKey,
                                  !.pc = "clientConnect"]]
    /\ UNCHANGED <<clients, supporters, mongoVars>>

supportersUpdate(c, publicKey, update) ==
    /\ supporterCalls[c].pc = "idle"
    /\ supporterCalls' = [supporterCalls EXCEPT ![c] =
          [NoSupporterCall EXCEPT !.op = "update", !.publicKey = publicKey,
                                  !.update = update, !.pc = "clientConnect"]]
    /\ UNCHANGED <<clients, supporters, mongoVars>>

supportersRemove(c, publicKey) ==
    /\ supporterCalls[c].pc = "idle"
    /\ supporterCalls' = [supporterCalls EXCEPT ![c] =
          [NoSupporterCall EXCEPT !.op = "remove", !.publicKey = publicKey,
                                  !.pc = "clientConnect"]]
    /\ UNCHANGED <<clients, supporters, mongoVars>>

\* await mongo3.clientConnect({concurrency: 1}) resolves to a new client.
clientConnectResolves(c) ==
    LET sc == supporterCalls[c]
    IN /\ sc.pc = "clientConnect"
       /\ clients' = Append(clients, [owner |-> c, closes |-> 0])
       /\ supporterCalls' = [supporterCalls EXCEPT ![c] =
            [sc EXCEPT !.mongoc = Len(clients) + 1,
                       !.pc = IF sc.op = "remove" THEN "deleteMany"
                              ELSE "readOne"]]
       /\ UNCHANGED <<supporters, mongoVars>>

clientConnectRejects(c) ==
    /\ supporterCalls[c].pc = "clientConnect"
    /\ supporterCalls' = [supporterCalls EXCEPT ![c] = Rejects(@, ConnErr)]
    /\ UNCHANGED <<clients, supporters, mongoVars>>

\* await mongo3.readOne(...) resolves; get and update go on from there, get
\* as far as its call of mongoc.close().
readOneResolves(c) ==
    LET sc == supporterCalls[c]
        supporter == readOne(supporters, sc.publicKey)
    IN /\ sc.pc = "readOne"
       /\ supporterCalls' = [supporterCalls EXCEPT ![c] =
            IF supporter = Null
            THEN Rejects(sc, Err("publicKey do not match any user"))
            ELSE IF sc.op = "get"
            THEN [sc EXCEPT !.value = supporter, !.pc = "close"]
            ELSE IF sc.update.publicKey # sc.publicKey
            THEN Rejects(sc, Err("publicKey can't be updarted"))
            ELSE [sc EXCEPT !.pc = "updateOne"]]
       /\ clients' = IF supporter # Null /\ sc.op = "get"
                     THEN [clients EXCEPT ![sc.mongoc] = mongocClose(@)]
                     ELSE clients
       /\ UNCHANGED <<supporters, mongoVars>>

readOneRejects(c) ==
    /\ supporterCalls[c].pc = "readOne"
    /\ supporterCalls' = [supporterCalls EXCEPT ![c] = Rejects(@, StoreErr)]
    /\ UNCHANGED <<clients, supporters, mongoVars>>

updateOneResolves(c) ==
    LET sc == supporterCalls[c]
    IN /\ sc.pc = "updateOne"
       /\ supporters' = updateSupporter(supporters, sc.publicKey, sc.update)
       /\ supporterCalls' = [supporterCalls EXCEPT ![c] =
            [sc EXCEPT !.value = [t |-> "reply", of |-> "updateOne"],
                       !.pc = "close"]]
       /\ clients' = [clients EXCEPT ![sc.mongoc] = mongocClose(@)]
       /\ UNCHANGED mongoVars

updateOneRejects(c) ==
    /\ supporterCalls[c].pc = "updateOne"
    /\ supporterCalls' = [supporterCalls EXCEPT ![c] = Rejects(@, StoreErr)]
    /\ UNCHANGED <<clients, supporters, mongoVars>>

deleteManyResolves(c) ==
    LET sc == supporterCalls[c]
    IN /\ sc.pc = "deleteMany"
       /\ supporters' = deleteMany(supporters, sc.publicKey)
       /\ supporterCalls' = [supporterCalls EXCEPT ![c] =
            [sc EXCEPT !.value = [t |-> "reply", of |-> "deleteMany"],
                       !.pc = "close"]]
       /\ clients' = [clients EXCEPT ![sc.mongoc] = mongocClose(@)]
       /\ UNCHANGED mongoVars

deleteManyRejects(c) ==
    /\ supporterCalls[c].pc = "deleteMany"
    /\ supporterCalls' = [supporterCalls EXCEPT ![c] = Rejects(@, StoreErr)]
    /\ UNCHANGED <<clients, supporters, mongoVars>>

\* The promise of mongoc.close() resolves; return <value>
mongocCloseResolves(c) ==
    LET sc == supporterCalls[c]
    IN /\ sc.pc = "close"
       /\ supporterCalls' = [supporterCalls EXCEPT ![c] =
            [sc EXCEPT !.pc = "done", !.out = Fulfilled(sc.value)]]
       /\ UNCHANGED <<clients, supporters, mongoVars>>

\* The promise of mongoc.close() rejects.
mongocCloseRejects(c) ==
    /\ supporterCalls[c].pc = "close"
    /\ supporterCalls' = [supporterCalls EXCEPT ![c] = Rejects(@, CloseErr)]
    /\ UNCHANGED <<clients, supporters, mongoVars>>

InitSupporters ==
    /\ calls = [c \in Calls |-> NoCall]
    /\ handles = <<>>
    /\ alarms = <<>>
    /\ store = EmptyStore
    /\ supporterCalls = [c \in Calls |-> NoSupporterCall]
    /\ clients = <<>>
    /\ supporters \in SupporterSets

NextSupporters ==
    \/ \E c \in Calls, k \in PublicKeys :
        \/ supportersGet(c, k)
        \/ \E u \in Updates : supportersUpdate(c, k, u)
        \/ supportersRemove(c, k)
    \/ \E c \in Calls :
        \/ clientConnectResolves(c)
        \/ clientConnectRejects(c)
        \/ readOneResolves(c)
        \/ readOneRejects(c)
        \/ updateOneResolves(c)
        \/ updateOneRejects(c)
        \/ deleteManyResolves(c)
        \/ deleteManyRejects(c)
        \/ mongocCloseResolves(c)
        \/ mongocCloseRejects(c)

SpecSupporters == InitSupporters /\ [][NextSupporters]_vars

(***************************************************************************)
(* Observations used by the properties                                     *)
(***************************************************************************)
Done(c) == calls[c].pc = "done"
Quiescent == \A c \in Calls : calls[c].pc \in {"idle", "done"}
Owned(c) == {h \in DOMAIN handles : handles[h].owner = c}
Open(c) == {h \in Owned(c) : handles[h].closes = 0}
AlarmsBy(c) == SelectSeq(alarms, LAMBDA r : r.by = c)

RECURSIVE Closes(_)
Closes(hs) == IF hs = <<>> THEN 0 ELSE Head(hs).closes + Closes(Tail(hs))
acquisitions == Len(handles)
releases == Closes(handles)

\* A document without the identity the store assigned to it.
sansId(doc) == Obj({p \in doc.kv : p[1] # "_id"})
\* No call was made after the call of caller c.
Latest(c) == \A d \in Calls : d > c => calls[d].pc = "idle"

DegradeCapable == {"readLimit", "countByDay", "countByObject", "lookup"}
Propagating ==
    {"writeOne", "writeMany", "updateOne", "upsertOne", "remove", "read",
     "distinct", "createIndex", "save", "countByMatch", "aggregate"}
Empty == Arr(<<>>)

(***************************************************************************)
(* C1. Every handle that was acquired is released exactly once, whatever   *)
(* the operation and the outcome of its store call: no handle is closed    *)
(* twice, a completed call has closed every handle it acquired, and once   *)
(* no call is in flight releases = acquisitions.                           *)
(***************************************************************************)
C1_ReleasedExactlyOnce ==
    /\ \A h \in DOMAIN handles : handles[h].closes <= 1
    /\ \A c \in Calls : Done(c) => \A h \in Owned(c) : handles[h].closes = 1
    /\ \A c \in Calls : Open(c) \subseteq {calls[c].handle}
    /\ Quiescent => releases = acquisitions

\* A degraded call and a call whose store failure propagated, both complete.
C1_Witness ==
    \E c, d \in Calls :
        /\ Done(c) /\ Done(d) /\ acquisitions = 2
        /\ calls[c].op = "countByDay" /\ calls[c].failure = "store"
        /\ calls[c].out = Fulfilled(Empty)
        /\ calls[d].failure = "store" /\ calls[d].out = Rejected(StoreErr)

(***************************************************************************)
(* C2. When the store raises during the pipeline of countByDay,            *)
(* countByObject or lookup, the call reports exactly one Alarm Record      *)
(* (caller = the operation, info = its inputs) and fulfils with the empty  *)
(* sequence; it never rejects.  (info.idobj is compared with the grouping  *)
(* object the operation uses, {} when the argument was omitted.)           *)
(***************************************************************************)
C2_PipelineFailureDegrades ==
    \A c \in Calls :
        (/\ calls[c].op \in {"countByDay", "countByObject", "lookup"}
         /\ calls[c].failure = "store"
         /\ Done(c))
        => /\ Len(AlarmsBy(c)) = 1
           /\ AlarmsBy(c)[1].rec.caller = calls[c].op
           /\ AlarmsBy(c)[1].rec.info =
                IF calls[c].op = "countByObject"
                THEN [calls[c].args EXCEPT !.idobj = idobjOrEmpty(@)]
                ELSE calls[c].args
           /\ calls[c].out = Fulfilled(Empty)

(***************************************************************************)
(* C3. A failure to acquire the connection propagates unmodified from      *)
(* every operation: the call rejects with the acquisition error and no     *)
(* Alarm Record is reported.                                               *)
(***************************************************************************)
C3_AcquisitionFailurePropagates ==
    \A c \in Calls :
        (calls[c].failure = "connect" /\ Done(c))
        => /\ calls[c].out = Rejected(ConnErr)
           /\ AlarmsBy(c) = <<>>

(***************************************************************************)
(* C4. When a degrade-capable operation hits a pipeline failure and the    *)
(* alarm sink fails while the record is reported, the caller still gets    *)
(* the empty sequence.                                                     *)
(***************************************************************************)
C4_SinkFailureNotSeen ==
    \A c \in Calls :
        (/\ calls[c].op \in DegradeCapable
         /\ calls[c].failure = "store"
         /\ Done(c)
         /\ \E i \in 1..Len(alarms) :
                alarms[i].by = c /\ alarms[i].sink # "accepted")
        => calls[c].out = Fulfilled(Empty)

(***************************************************************************)
(* C5. remove with the selector {} throws the precondition error before    *)
(* any store interaction (no connect, no handle, no delete issued); remove *)
(* with a selector of at least one key connects, and issues the delete     *)
(* with the handle it gets.                                                *)
(***************************************************************************)
C5_RemoveGuard ==
    \A c \in Calls :
        calls[c].op = "remove" =>
            IF keys(calls[c].args.selector) = {}
            THEN /\ calls[c].out = Thrown(Err("Nope, you can't delete {} "))
                 /\ calls[c].connects = 0
                 /\ Owned(c) = {}
                 /\ calls[c].issued = <<>>
            ELSE /\ calls[c].connects = 1
                 /\ calls[c].out.st # "thrown"
                 /\ (Owned(c) # {} \/ (Done(c) /\ calls[c].failure # "connect"))
                    => /\ Len(calls[c].issued) = 1
                       /\ calls[c].issued[1].handle \in Owned(c)
                       /\ calls[c].issued[1].req =
                            Req(calls[c].args.cName, "remove",
                                <<calls[c].args.selector>>)

C5_Witness ==
    \E c, d \in Calls :
        /\ calls[c].op = "remove" /\ keys(calls[c].args.selector) = {}
        /\ calls[c].out.st = "thrown"
        /\ calls[d].op = "remove" /\ keys(calls[d].args.selector) # {}
        /\ Len(calls[d].applied) = 1

(***************************************************************************)
(* C6. updateMany with a batch in which some element, at any position,     *)
(* has no id throws at once: no connect, no handle, no write issued.       *)
(***************************************************************************)
C6_UpdateManyValidatesAll ==
    \A c \in Calls :
        (/\ calls[c].op = "updateMany"
         /\ \E i \in 1..Len(calls[c].args.elist.items) :
                "id" \notin keys(calls[c].args.elist.items[i]))
        => /\ calls[c].out = Thrown(Err("we need id in every element"))
           /\ calls[c].connects = 0
           /\ Owned(c) = {}
           /\ calls[c].issued = <<>>

\* The element without id is not the first one.
C6_Witness ==
    \E c \in Calls :
        /\ calls[c].op = "updateMany"
        /\ Len(calls[c].args.elist.items) = 2
        /\ "id" \in keys(calls[c].args.elist.items[1])
        /\ "id" \notin keys(calls[c].args.elist.items[2])
        /\ calls[c].out.st = "thrown"

(***************************************************************************)
(* C7. updateMany writes its elements one after the other in list order,   *)
(* each with a handle of its own: the connect for element i+1 is issued    *)
(* only after the write of element i was acknowledged and its handle       *)
(* closed, so the call never has two handles open.                         *)
(***************************************************************************)
C7_UpdateManySequential ==
    \A c \in Calls :
        calls[c].op = "updateMany" =>
            LET cr == calls[c] IN
            /\ Cardinality(Open(c)) <= 1
            /\ cr.pc = "connecting"
               => /\ Open(c) = {}
                  /\ Len(cr.issued) = cr.idx - 1
                  /\ Len(cr.applied) = cr.idx - 1
            /\ \A j \in 1..Len(cr.issued) :
                /\ cr.issued[j].req = Request("updateMany", cr.args, j)
                /\ \A i \in 1..(j - 1) :
                    /\ cr.issued[i].handle # cr.issued[j].handle
                    /\ handles[cr.issued[i].handle].closes = 1
                    /\ cr.applied[i] = cr.issued[i].req

\* The second element's write is in flight, the first one's handle closed.
C7_Witness ==
    \E c \in Calls :
        /\ calls[c].op = "updateMany"
        /\ calls[c].pc = "executing"
        /\ calls[c].idx = 2
        /\ calls[c].args.elist.items[1] # calls[c].args.elist.items[2]
        /\ Cardinality(Owned(c)) = 2

(***************************************************************************)
(* C8. When the write of element k fails in updateMany, the call rejects   *)
(* with that error, no write is issued for an element after k, and the     *)
(* writes of the elements before k stay applied.                           *)
(***************************************************************************)
C8_UpdateManyHaltsOnFailure ==
    \A c \in Calls :
        (calls[c].op = "updateMany" /\ calls[c].failure = "store" /\ Done(c))
        => LET cr == calls[c]
               k == cr.failedAt
           IN /\ cr.out = Rejected(StoreErr)
              /\ Len(cr.issued) = k
              /\ cr.applied = [j \in 1..(k - 1) |-> Request("updateMany", cr.args, j)]

\* One batch fails on its first element of two, another on its second.
C8_Witness ==
    \E c, d \in Calls :
        /\ calls[c].op = "updateMany" /\ calls[d].op = "updateMany"
        /\ Done(c) /\ Done(d)
        /\ calls[c].failure = "store" /\ calls[d].failure = "store"
        /\ calls[c].failedAt = 1 /\ Len(calls[c].args.elist.items) = 2
        /\ calls[d].failedAt = 2 /\ Len(calls[d].applied) = 1

(***************************************************************************)
(* C9. countByDay with a timeVarName that does not start with "$" throws   *)
(* the precondition error at once: no connect, no handle, no pipeline.     *)
(***************************************************************************)
C9_CountByDayGuard ==
    \A c \in Calls :
        (/\ calls[c].op = "countByDay"
         /\ LET t == calls[c].args.timeVarName
            IN t.t = "string" => (t.s = <<>> \/ Head(t.s) # "$"))
        => /\ calls[c].out = Thrown(Err("developer please: mongoVar wants '$'"))
           /\ calls[c].connects = 0
           /\ Owned(c) = {}
           /\ calls[c].issued = <<>>

C9_Witness ==
    \E c \in Calls :
        /\ calls[c].op = "countByDay"
        /\ calls[c].args.timeVarName = Str(<<"t">>)
        /\ calls[c].out.st = "thrown"

(***************************************************************************)
(* C10. In a propagating operation a failure of the store call rejects the *)
(* call with that same error: no Alarm Record, no substituted result, and  *)
(* the handle is released.                                                 *)
(***************************************************************************)
C10_StoreFailurePropagates ==
    \A c \in Calls :
        (calls[c].op \in Propagating /\ calls[c].failure = "store" /\ Done(c))
        => /\ calls[c].out = Rejected(StoreErr)
           /\ AlarmsBy(c) = <<>>
           /\ Cardinality(Owned(c)) = 1
           /\ \A h \in Owned(c) : handles[h].closes = 1

\* An echoing write and an aggregation, both failed in the store.
C10_Witness ==
    \E c, d \in Calls :
        /\ calls[c].op = "writeOne" /\ calls[d].op = "aggregate"
        /\ Done(c) /\ Done(d)
        /\ calls[c].failure = "store" /\ calls[d].failure = "store"

(***************************************************************************)
(* C14. readLimit treats every skip-count argument that is not a number    *)
(* (undefined, a string, NaN) as 0: the skip handed to the store is 0.     *)
(***************************************************************************)
C14_NonNumberSkipIsZero ==
    \A c \in Calls :
        (/\ calls[c].op = "readLimit"
         /\ calls[c].args.past.t # "number"
         /\ Len(calls[c].issued) > 0)
        => calls[c].issued[1].req.params[3] = Num(0)

(***************************************************************************)
(* C15. When the store raises on readLimit's query, readLimit reports      *)
(* exactly one Alarm Record with caller "readLimit" and fulfils with the   *)
(* empty sequence instead of rejecting.                                    *)
(***************************************************************************)
C15_ReadLimitDegrades ==
    \A c \in Calls :
        (calls[c].op = "readLimit" /\ calls[c].failure = "store" /\ Done(c))
        => /\ Len(AlarmsBy(c)) = 1
           /\ AlarmsBy(c)[1].rec.caller = "readLimit"
           /\ calls[c].out = Fulfilled(Empty)

(***************************************************************************)
(* C16. In every degrade-capable operation the degrade step of a pipeline  *)
(* failure (the Alarm Record is reported, the empty result substituted)    *)
(* comes before the release: the step that reports the call's alarm leaves *)
(* the call's handle open.                                                 *)
(***************************************************************************)
C16_DegradeBeforeRelease ==
    [][\A c \in Calls :
        (/\ calls[c].op \in DegradeCapable
         /\ calls'[c].failure = "store"
         /\ Len(alarms') > Len(alarms)
         /\ alarms'[Len(alarms')].by = c)
        => handles'[calls[c].handle].closes = 0]_vars

(***************************************************************************)
(* C17. A call rejected by a precondition check (remove with an empty      *)
(* selector, countByDay with a time field not starting with "$",           *)
(* updateMany with an element without id) never reports an Alarm Record.   *)
(***************************************************************************)
C17_PreconditionsRaiseNoAlarm ==
    \A c \in Calls :
        (\/ calls[c].op = "remove" /\ keys(calls[c].args.selector) = {}
         \/ /\ calls[c].op = "countByDay"
            /\ LET t == calls[c].args.timeVarName
               IN t.t = "string" => (t.s = <<>> \/ Head(t.s) # "$")
         \/ /\ calls[c].op = "updateMany"
            /\ \E i \in 1..Len(calls[c].args.elist.items) :
                   "id" \notin keys(calls[c].args.elist.items[i]))
        => /\ calls[c].out.st = "thrown"
           /\ AlarmsBy(c) = <<>>

\* A rejected remove next to a call whose alarm did reach the sink.
C17_Witness ==
    \E c, d \in Calls :
        /\ calls[c].op = "remove" /\ calls[c].out.st = "thrown"
        /\ calls[d].op = "countByDay" /\ Done(d) /\ Len(AlarmsBy(d)) = 1
        /\ alarms[1].sink = "accepted"

(***************************************************************************)
(* C18. Under every interleaving each call works on handles of its own:    *)
(* every store call is issued on a handle its own call acquired, every     *)
(* handle carries exactly one store call, a store call in flight is on a   *)
(* handle that is still open, and a handle is only closed by its owner     *)
(* after that store call settled.                                          *)
(***************************************************************************)
C18_FreshHandlePerCall ==
    /\ \A c \in Calls : \A i \in 1..Len(calls[c].issued) :
        /\ calls[c].issued[i].handle \in DOMAIN handles
        /\ handles[calls[c].issued[i].handle].owner = c
    /\ \A h \in DOMAIN handles :
        Cardinality({ci \in {<<c, i>> : c \in Calls, i \in 1..MaxBatch + 1} :
                        /\ ci[2] <= Len(calls[ci[1]].issued)
                        /\ calls[ci[1]].issued[ci[2]].handle = h}) = 1
    /\ \A c \in Calls :
        calls[c].pc = "executing"
        => /\ handles[calls[c].handle].closes = 0
           /\ calls[c].issued[Len(calls[c].issued)].handle = calls[c].handle
    /\ \A h \in DOMAIN handles :
        handles[h].closes > 0
        => \/ calls[handles[h].owner].handle # h
           \/ calls[handles[h].owner].pc \notin {"executing", "closing"}

\* The caller that connected second has released; the first one is still
\* waiting for the store on its own open handle.
C18_Witness ==
    \E c, d \in Calls :
        /\ c # d
        /\ calls[c].pc = "executing" /\ calls[c].handle = 1
        /\ Done(d) /\ Owned(d) = {2} /\ handles[2].closes = 1

(***************************************************************************)
(* C11: round trip.  When writeOne(doc) has completed successfully and a   *)
(* read is made afterwards with a selector that matches doc, with no       *)
(* delete or update in between, the sequence the read returns contains a   *)
(* document equal to doc once the store-assigned _id is set aside.         *)
(***************************************************************************)
C11_WriteThenReadRoundTrip ==
    \A w \in Calls, r \in Calls :
        (/\ w < r
         /\ calls[w].op = "writeOne" /\ calls[w].out.st = "fulfilled"
         /\ calls[r].op = "read" /\ calls[r].out.st = "fulfilled"
         /\ Matches(calls[w].args.dataObject, calls[r].args.selector))
        => \E i \in DOMAIN calls[r].out.val.items :
              sansId(calls[r].out.val.items[i]) = calls[w].args.dataObject

\* A document written next to two older ones is read back by a selector on
\* its id, and by the selector that matches everything.
C11_Witness ==
    /\ calls[1].op = "writeOne" /\ calls[1].out = Fulfilled(E1)
    /\ calls[2].op = "read" /\ calls[2].out.st = "fulfilled"
    /\ calls[2].args.selector = Obj({<<"id", Num(1)>>})
    /\ Len(store.docs) = 3
    /\ Len(calls[2].out.val.items) >= 1
    /\ \E i \in DOMAIN calls[2].out.val.items :
          /\ sansId(calls[2].out.val.items[i]) = E1
          /\ calls[2].out.val.items[i] # E1

(***************************************************************************)
(* C12: readLimit with past = NaN returns what past = 0 returns, nothing   *)
(* skipped; with a numeric past it returns, in sort order, the documents   *)
(* at positions past .. past+limit-1 of the sorted matching documents.     *)
(***************************************************************************)
C12_ReadLimitSkipsPast ==
    \A c \in Calls :
        LET a == calls[c].args IN
        (/\ calls[c].op = "readLimit"
         /\ calls[c].failure = "none" /\ calls[c].out.st = "fulfilled"
         /\ Latest(c)
         /\ (isNaN(a.past) \/ a.past.t = "number"))
        => LET k == IF isNaN(a.past) THEN 0 ELSE a.past.n
               sorted == sort(find(store.docs, a.selector), a.sorter)
               last == IF k + a.limitN.n < Len(sorted)
                       THEN k + a.limitN.n ELSE Len(sorted)
           IN calls[c].out.val.items = SubSeq(sorted, k + 1, last)

\* On a collection whose natural order is not its order by v, past = NaN
\* gave the first two documents by v and past = 1 gave the second one.
C12_Witness ==
    LET sel == Obj({})
        by == Obj({<<"v", Num(1)>>})
        sorted == sort(find(store.docs, sel), by)
    IN /\ Len(store.docs) = 2 /\ sorted # store.docs
       /\ calls[1].op = "readLimit" /\ calls[1].args.past = NaN
       /\ calls[1].args.selector = sel /\ calls[1].args.sorter = by
       /\ calls[1].out = Fulfilled(Arr(sorted))
       /\ calls[2].op = "readLimit" /\ calls[2].args.past = Num(1)
       /\ calls[2].args.selector = sel /\ calls[2].args.sorter = by
       /\ calls[2].out = Fulfilled(Arr(<<sorted[2]>>))

(***************************************************************************)
(* C13, as stated: countByObject invoked without a grouping object returns *)
(* exactly one entry, whose count is the number of documents in the        *)
(* collection, whatever the collection holds.                              *)
(***************************************************************************)
C13_OneEntryAlways ==
    \A c \in Calls :
        (/\ calls[c].op = "countByObject" /\ isUndefined(calls[c].args.idobj)
         /\ calls[c].failure = "none" /\ calls[c].out.st = "fulfilled"
         /\ Latest(c))
        => /\ Len(calls[c].out.val.items) = 1
           /\ Get(calls[c].out.val.items[1], "count") = Num(Len(store.docs))

(***************************************************************************)
(* C13, amended: countByObject invoked without a grouping object groups by *)
(* the constant key {}; on a collection that holds at least one document   *)
(* it returns exactly one entry, with key {} and the number of documents   *)
(* as its count, and on an empty collection it returns no entry.           *)
(***************************************************************************)
C13_OneEntryUnlessEmpty ==
    \A c \in Calls :
        (/\ calls[c].op = "countByObject" /\ isUndefined(calls[c].args.idobj)
         /\ calls[c].failure = "none" /\ calls[c].out.st = "fulfilled"
         /\ Latest(c))
        => IF store.docs = <<>>
           THEN calls[c].out.val = Empty
           ELSE calls[c].out.val =
                  Arr(<<Obj({<<"_id", Obj({})>>,
                             <<"count", Num(Len(store.docs))>>})>>)

\* Three different documents, one written by the call before, counted in
\* one entry.
C13_Witness ==
    /\ calls[1].op = "writeOne" /\ calls[1].out.st = "fulfilled"
    /\ calls[2].op = "countByObject" /\ isUndefined(calls[2].args.idobj)
    /\ calls[2].failure = "none"
    /\ Len(store.docs) = 3
    /\ \A i, j \in 1..3 : i # j => sansId(store.docs[i]) # sansId(store.docs[j])
    /\ calls[2].out = Fulfilled(Arr(<<Obj({<<"_id", Obj({})>>,
                                           <<"count", Num(3)>>})>>))

(***************************************************************************)
(* C19: get, update and remove of lib/supporters close the client they     *)
(* opened on every exit path: a call that connected a client and has       *)
(* completed, by returning or by rejecting, has closed that client.        *)
(***************************************************************************)
C19_ClientClosedOnEveryExit ==
    \A c \in Calls :
        (supporterCalls[c].pc = "done" /\ supporterCalls[c].mongoc # 0)
        => clients[supporterCalls[c].mongoc].closes >= 1

====
